---- MODULE Spec2Model ----
(***************************************************************************)
(* Model of volt/executor/impl_btree.py: the per-volume binary tree of     *)
(* peers (BTreeNode, BTree) and the registry on top of it (BtreeExecutor). *)
(*                                                                         *)
(* Python objects live in `heap`, addressed by an object id; a reference   *)
(* is an object id, None is 0.  Object ids are given out in the order of   *)
(* creation and never again; objects no longer referenced from the         *)
(* registry are dropped from the heap (Python's reference counting).       *)
(***************************************************************************)
EXTENDS Integers, Sequences, FiniteSets, TLC

VARIABLES heap, volumes, host_to_volumes, allocated, result

vars == <<heap, volumes, host_to_volumes, allocated, result>>

(***************************************************************************)
(* Bounds and input sets                                                   *)
(***************************************************************************)
\* Number of BTreeNode objects a run of the registry creates at most.
MaxObj == 5

\* Number of BTreeNode objects a run of one tree used directly creates at
\* most.
MaxTreeObj == 3

\* Python's None, for object references and for peer ids.
None == 0
\* Python's None, for the opaque metadata fields and for volume ids.
NoVal == "None"

\* The volume the callers attach to, and a volume nobody ever attached to.
VolumeIds == {"vol-1"}
OtherVolume == "vol-2"

Hosts == {"h1", "h2"}

\* The value utils.generate_uuid() gives the sentinel root's address fields:
\* a string no caller supplies.
Uuid == "uuid"

\* The keyword arguments a caller gives add_volume_metadata / update_nodes.
Metas ==
  { [host |-> "h1", port |-> "3260", iqn |-> "iqn.x", lun |-> "0"] }

Statuses == {"OK", "pending", NoVal}

\* Outcomes of a call that are not a return: the exception raised, or
\* "loop" when the call never returns.
AttributeError == -1
Loop == -2

(***************************************************************************)
(* Small helpers                                                           *)
(***************************************************************************)
Min(S) == CHOOSE x \in S : \A y \in S : x <= y

EmptyMap == [x \in {} |-> None]

\* dict[k] = v
Put(f, k, v) == [x \in (DOMAIN f) \cup {k} |-> IF x = k THEN v ELSE f[x]]

\* del dict[k]
Del(f, k) == [x \in (DOMAIN f) \ {k} |-> f[x]]

Range(f) == {f[x] : x \in DOMAIN f}

(***************************************************************************)
(* BTreeNode                                                               *)
(***************************************************************************)
BTreeNode(peer_id, host, port, iqn, lun, parent, status, fake_root) ==
  [peer_id |-> peer_id, host |-> host, port |-> port, iqn |-> iqn,
   lun |-> lun, left |-> None, right |-> None, parent |-> parent,
   status |-> status, fake_root |-> fake_root]

\* A faulty variant of available: the free slot is not looked at.
available_without_slot_test(h, n) ==
  h[n].status = "OK"

\* A faulty variant of available: the test of the status is missing.
available_without_status_test(h, n) ==
  h[n].left = None \/ h[n].right = None

available(h, n) ==
  h[n].status = "OK" /\ (h[n].left = None \/ h[n].right = None)

identity(h, n) ==
  [host |-> h[n].host, port |-> h[n].port, iqn |-> h[n].iqn,
   lun |-> h[n].lun, status |-> h[n].status, peer_id |-> h[n].peer_id]

(***************************************************************************)
(* Allocation of objects and of fresh ids                                  *)
(***************************************************************************)
\* Peer ids some object or some index key currently carries.
UsedPeerIds(h, idx) ==
  {h[n].peer_id : n \in DOMAIN h}
    \cup UNION {DOMAIN idx[k] : k \in DOMAIN idx}

\* utils.generate_uuid() for the peer id of the k-th object created: a value
\* nothing carried before.  Object ids never repeat, so the id of the
\* object serves.
generate_uuid(k) == k

\* The objects reachable from `roots` through left / right / parent.
RECURSIVE Closure(_, _)
Closure(h, S) ==
  LET T == (S \cup UNION {{h[n].left, h[n].right, h[n].parent} : n \in S})
             \ {None}
  IN IF T = S THEN S ELSE Closure(h, T)

Roots(vs, idx) ==
  (UNION {Range(vs[v].nodes) \cup {vs[v].root} : v \in DOMAIN vs}
     \cup UNION {Range(idx[k]) : k \in DOMAIN idx}) \ {None}

\* Drop the objects nothing refers to any more.
Collect(h, vs, idx) ==
  LET live == Closure(h, Roots(vs, idx))
  IN [n \in live |-> h[n]]

(***************************************************************************)
(* tree_find_available_slot                                                *)
(***************************************************************************)
\* The queue holds references, None included: dequeuing None raises
\* AttributeError on node.available().
RECURSIVE bfs(_, _, _)
bfs(h, node_queue, fuel) ==
  IF node_queue = <<>> THEN None
  ELSE IF fuel = 0 THEN Loop
  ELSE LET node == Head(node_queue) IN
    IF node = None THEN AttributeError
    ELSE IF available(h, node) THEN node
    ELSE bfs(h, Tail(node_queue) \o <<h[node].left, h[node].right>>, fuel - 1)

\* More dequeues than any search of an acyclic heap of the objects of a run
\* makes.
BfsFuel == 2 * (MaxObj + MaxTreeObj) * (MaxObj + MaxTreeObj)

\* A faulty variant of the search: the right child is enqueued before the
\* left one.
RECURSIVE bfs_right_first(_, _, _)
bfs_right_first(h, node_queue, fuel) ==
  IF node_queue = <<>> THEN None
  ELSE IF fuel = 0 THEN Loop
  ELSE LET node == Head(node_queue) IN
    IF node = None THEN AttributeError
    ELSE IF available(h, node) THEN node
    ELSE bfs_right_first(h,
                         Tail(node_queue) \o <<h[node].right, h[node].left>>,
                         fuel - 1)

tree_find_available_slot_right_first(h, tree_root) ==
  bfs_right_first(h, <<tree_root>>, BfsFuel)

tree_find_available_slot(h, tree_root) == bfs(h, <<tree_root>>, BfsFuel)

(***************************************************************************)
(* BTree                                                                   *)
(***************************************************************************)
\* BTree.__init__ with root given: `root` is an object of h.
BTree(h, root) ==
  [h |-> [h EXCEPT ![root].left = None, ![root].right = None,
                   ![root].parent = None],
   t |-> [root |-> root, nodes |-> (h[root].peer_id :> root)]]

count(t) == Cardinality(DOMAIN t.nodes)

\* insert_by_node: new_node is an object of h, or None.
\* Gives [h, t, out, ret]; ret is the slot.
insert_by_node(h, t, new_node) ==
  IF new_node = None
    THEN [h |-> h, t |-> t, out |-> "InvalidParameterValue", ret |-> None]
  ELSE IF h[new_node].peer_id \in DOMAIN t.nodes
    THEN [h |-> h, t |-> t, out |-> "InvalidParameterValue", ret |-> None]
  ELSE IF h[new_node].parent # None
    THEN [h |-> h, t |-> t, out |-> "InvalidParameterValue", ret |-> None]
  ELSE
    LET attach(slot) ==
          IF slot = AttributeError
            THEN [h |-> h, t |-> t, out |-> "AttributeError", ret |-> None]
          ELSE IF slot = Loop
            THEN [h |-> h, t |-> t, out |-> "loop", ret |-> None]
          ELSE IF slot = None
            \* `slot.left` on None, after the node was registered
            THEN [h |-> h,
                  t |-> [t EXCEPT !.nodes = Put(t.nodes, h[new_node].peer_id,
                                                new_node)],
                  out |-> "AttributeError", ret |-> None]
          ELSE
            LET nodes1 == Put(t.nodes, h[new_node].peer_id, new_node)
                h1 == [h EXCEPT ![new_node].left = None,
                                ![new_node].right = None,
                                ![new_node].parent = slot]
                h2 == IF h1[slot].left = None
                        THEN [h1 EXCEPT ![slot].left = new_node]
                        ELSE [h1 EXCEPT ![slot].right = new_node]
            IN [h |-> h2, t |-> [t EXCEPT !.nodes = nodes1], out |-> "ok",
                ret |-> slot]
    IN attach(tree_find_available_slot(h, t.root))

\* The left-spine walk of tree_remove_by_node: `while not current.available():
\* if current.left: current = current.left`.  It never ends when it stands on
\* an unavailable node without left child, or goes round a cycle.
RECURSIVE spine(_, _, _)
spine(h, current, fuel) ==
  IF available(h, current) THEN current
  ELSE IF h[current].left = None \/ fuel = 0 THEN Loop
  ELSE spine(h, h[current].left, fuel - 1)

\* Lines 161-192 of tree_remove_by_node: unlink target, after the cascade.
unlink(h, root, target) ==
  LET both == h[target].left # None /\ h[target].right # None
      up == IF h[target].left # None THEN h[target].left ELSE h[target].right
      relink(current) ==
        IF current = Loop THEN [h |-> h, root |-> root, out |-> "loop"]
        ELSE
          LET h1 == IF both
                      THEN [h EXCEPT ![h[target].right].parent = current]
                      ELSE h
              h2 == IF ~both THEN h1
                    ELSE IF h1[current].left = None
                      THEN [h1 EXCEPT ![current].left = h1[target].right]
                      ELSE [h1 EXCEPT ![current].right = h1[target].right]
              h3 == IF up # None
                      THEN [h2 EXCEPT ![up].parent = h2[target].parent]
                      ELSE h2
              p == h3[target].parent
              h4 == IF p = None THEN h3
                    ELSE IF h3[p].left = target THEN [h3 EXCEPT ![p].left = up]
                    ELSE [h3 EXCEPT ![p].right = up]
          IN [h |-> h4, root |-> IF target = root THEN up ELSE root,
              out |-> "ok"]
  IN relink(IF both THEN spine(h, target, Cardinality(DOMAIN h)) ELSE None)

\* tree_remove_by_node.  Gives [h, root, out].  fuel bounds the depth of the
\* recursion, which Python bounds too (RuntimeError).
RECURSIVE tree_remove_by_node(_, _, _, _)
tree_remove_by_node(h, root, target, fuel) ==
  IF target = None
    THEN [h |-> h, root |-> root, out |-> "InvalidParameterValue"]
  ELSE IF fuel = 0
    THEN [h |-> h, root |-> root, out |-> "RuntimeError"]
  ELSE
    LET then_right(w1) ==
          IF w1.out # "ok" THEN w1
          ELSE IF w1.h[target].status = "pending"
                    /\ w1.h[target].right # None
            THEN tree_remove_by_node(w1.h, w1.root, w1.h[target].right,
                                     fuel - 1)
            ELSE w1
        then_unlink(w2) ==
          IF w2.out # "ok" THEN w2 ELSE unlink(w2.h, w2.root, target)
    IN then_unlink(then_right(
         IF h[target].status = "pending" /\ h[target].left # None
           THEN tree_remove_by_node(h, root, h[target].left, fuel - 1)
           ELSE [h |-> h, root |-> root, out |-> "ok"]))

RemoveFuel == MaxObj + MaxTreeObj

\* A faulty variant of insert_by_peer_id: the test of line 199 is left to
\* insert_by_node.
insert_by_peer_id_without_test(h, t, peer_id, node) ==
  LET h1 == node :> BTreeNode(peer_id, NoVal, NoVal, NoVal, NoVal, None,
                              NoVal, FALSE) @@ h
  IN insert_by_node(h1, t, node)

\* insert_by_peer_id: node is the object id the new BTreeNode gets.
insert_by_peer_id(h, t, peer_id, node) ==
  IF peer_id \in DOMAIN t.nodes
    THEN [h |-> h, t |-> t, out |-> "DuplicateItem", ret |-> None]
  ELSE
    LET h1 == node :> BTreeNode(peer_id, NoVal, NoVal, NoVal, NoVal, None,
                                NoVal, FALSE) @@ h
    IN insert_by_node(h1, t, node)

\* remove_by_peer_id.  Gives [h, t, out, ret]; ret is the removed object.
remove_by_peer_id(h, t, peer_id) ==
  IF peer_id \notin DOMAIN t.nodes
    THEN [h |-> h, t |-> t, out |-> "InvalidParameterValue", ret |-> None]
  ELSE
    LET target == t.nodes[peer_id]
        removed(w) ==
          IF w.out # "ok"
            THEN [h |-> w.h, t |-> [t EXCEPT !.root = w.root], out |-> w.out,
                  ret |-> None]
            ELSE [h |-> w.h,
                  t |-> [root |-> w.root, nodes |-> Del(t.nodes, peer_id)],
                  out |-> "ok", ret |-> target]
    IN removed(tree_remove_by_node(h, t.root, target, RemoveFuel))

\* get_node_parent.  Gives [out, ret].
get_node_parent(h, t, peer_id) ==
  IF peer_id \notin DOMAIN t.nodes
    THEN [out |-> "InvalidParameterValue", ret |-> None]
    ELSE [out |-> "ok", ret |-> h[t.nodes[peer_id]].parent]

\* update_nodes; peer_id is never None here (the caller of this operator
\* draws generate_uuid() itself).  node is the object id a new BTreeNode
\* gets.  Gives [h, t, out, ret]; ret is the target object.
update_nodes(h, t, peer_id, m, status, node) ==
  LET target == IF peer_id \notin DOMAIN t.nodes THEN node
                ELSE t.nodes[peer_id]
      inserted(r) ==
        [h |-> r.h, root |-> r.t.root, nodes |-> r.t.nodes, out |-> r.out]
      cascade(w0) ==
        LET pend == w0.out = "ok" /\ w0.h[target].status = "pending"
            then_right(w1) ==
              IF pend /\ w1.out = "ok" /\ w1.h[target].right # None
                THEN tree_remove_by_node(w1.h, w1.root, w1.h[target].right,
                                         RemoveFuel)
                ELSE w1
            updated(w2) ==
              [h |-> w2.h, t |-> [root |-> w2.root, nodes |-> w0.nodes],
               out |-> w2.out, ret |-> IF w2.out = "ok" THEN target ELSE None]
        IN updated(then_right(
             IF pend /\ w0.h[target].left # None
               THEN tree_remove_by_node(w0.h, w0.root, w0.h[target].left,
                                        RemoveFuel)
               ELSE [h |-> w0.h, root |-> w0.root, out |-> w0.out]))
  IN cascade(
       IF peer_id \notin DOMAIN t.nodes
         THEN inserted(insert_by_node(
                node :> BTreeNode(peer_id, m.host, m.port, m.iqn, m.lun, None,
                                  status, FALSE) @@ h,
                t, node))
         ELSE [h |-> [h EXCEPT ![target].peer_id = peer_id,
                               ![target].host = m.host,
                               ![target].port = m.port,
                               ![target].iqn = m.iqn,
                               ![target].lun = m.lun,
                               ![target].status = status],
               root |-> t.root, nodes |-> t.nodes, out |-> "ok"])

(***************************************************************************)
(* BtreeExecutor                                                           *)
(*                                                                         *)
(* The operators below work on a registry value s = [heap, volumes,        *)
(* host_to_volumes] and give the registry after the call together with     *)
(* out (how the call ended) and ret (what it returned).                    *)
(***************************************************************************)
Reg(h, vs, idx, out, ret) ==
  [heap |-> h, volumes |-> vs, host_to_volumes |-> idx, out |-> out,
   ret |-> ret]

\* A faulty variant of add_host_bookkeeping: the last line, which stores
\* the node, is missing.
add_host_bookkeeping_without_store(idx, host, peer_id, node) ==
  LET idx1 == IF host \in DOMAIN idx THEN idx ELSE Put(idx, host, EmptyMap)
  IN IF peer_id \in DOMAIN idx1[host]
       THEN [idx |-> idx1, out |-> "Duplicate"]
       ELSE [idx |-> idx1, out |-> "ok"]

\* add_host_bookkeeping.  Gives [idx, out].
add_host_bookkeeping(idx, host, peer_id, node) ==
  LET idx1 == IF host \in DOMAIN idx THEN idx ELSE Put(idx, host, EmptyMap)
  IN IF peer_id \in DOMAIN idx1[host]
       THEN [idx |-> idx1, out |-> "Duplicate"]
       ELSE [idx |-> [idx1 EXCEPT ![host] = Put(idx1[host], peer_id, node)],
             out |-> "ok"]

\* remove_host_bookkeeping.  Gives [idx, out].
remove_host_bookkeeping(idx, host, peer_id) ==
  IF host \notin DOMAIN idx \/ peer_id \notin DOMAIN idx[host]
    THEN [idx |-> idx, out |-> "NotFound"]
    ELSE [idx |-> [idx EXCEPT ![host] = Del(idx[host], peer_id)],
          out |-> "ok"]

\* get_volumes_list
get_volumes_list(s) ==
  {[id |-> v, count |-> count(s.volumes[v])] : v \in DOMAIN s.volumes}

\* get_volumes_detail.  Gives [out, ret].  The loop body reads self.nodes,
\* an attribute BtreeExecutor does not have.
get_volumes_detail(s, volume_id) ==
  LET volumes_nodes == IF volume_id \notin DOMAIN s.volumes THEN {}
                       ELSE DOMAIN s.volumes[volume_id].nodes
  IN IF volumes_nodes = {} THEN [out |-> "ok", ret |-> <<>>]
     ELSE [out |-> "AttributeError", ret |-> NoVal]

\* A faulty variant of add_volume_metadata: status='OK' is not passed to
\* update_nodes, which then takes its default, None.
add_volume_metadata_without_status(s, volume_id, peer_id, m) ==
  IF volume_id \notin DOMAIN s.volumes
    THEN Reg(s.heap, s.volumes, s.host_to_volumes, "NotFound", NoVal)
  ELSE
    LET pid == IF peer_id = None
                 THEN generate_uuid(s.allocated + 1) ELSE peer_id
        reply(r) ==
          Reg(r.h, [s.volumes EXCEPT ![volume_id] = r.t], s.host_to_volumes,
              r.out, IF r.out = "ok" THEN identity(r.h, r.ret) ELSE NoVal)
    IN reply(update_nodes(s.heap, s.volumes[volume_id], pid, m, NoVal,
                          s.allocated + 1))

\* add_volume_metadata; peer_id may be None, then update_nodes draws one.
add_volume_metadata(s, volume_id, peer_id, m) ==
  IF volume_id \notin DOMAIN s.volumes
    THEN Reg(s.heap, s.volumes, s.host_to_volumes, "NotFound", NoVal)
  ELSE
    LET pid == IF peer_id = None
                 THEN generate_uuid(s.allocated + 1) ELSE peer_id
        reply(r) ==
          Reg(r.h, [s.volumes EXCEPT ![volume_id] = r.t], s.host_to_volumes,
              r.out, IF r.out = "ok" THEN identity(r.h, r.ret) ELSE NoVal)
    IN reply(update_nodes(s.heap, s.volumes[volume_id], pid, m, "OK",
                          s.allocated + 1))

\* delete_volume_metadata
delete_volume_metadata(s, volume_id, peer_id) ==
  IF peer_id = None
    THEN Reg(s.heap, s.volumes, s.host_to_volumes, "InvalidParameterValue",
             NoVal)
  ELSE IF volume_id \notin DOMAIN s.volumes
    THEN Reg(s.heap, s.volumes, s.host_to_volumes, "NotFound", NoVal)
  ELSE
    LET vol_tree == s.volumes[volume_id] IN
    IF peer_id \notin DOMAIN vol_tree.nodes
      THEN Reg(s.heap, s.volumes, s.host_to_volumes, "NotFound", NoVal)
    ELSE
      LET node == vol_tree.nodes[peer_id]
          removed(b, r) ==
            Reg(r.h, [s.volumes EXCEPT ![volume_id] = r.t], b.idx,
                IF r.out = "InvalidParameterValue" THEN "NotFound"
                ELSE r.out, NoVal)
          unindexed(b) ==
            IF b.out # "ok"
              THEN Reg(s.heap, s.volumes, s.host_to_volumes, b.out, NoVal)
              ELSE removed(b, remove_by_peer_id(s.heap, vol_tree, peer_id))
      IN unindexed(remove_host_bookkeeping(s.host_to_volumes,
                                           s.heap[node].host, peer_id))

\* A faulty variant of parents_of: the test against the root is missing.
parents_of_without_root_test(h, t, peer_id, target) ==
  LET parent == h[target].parent
  IN IF parent = None THEN [out |-> "AttributeError", ret |-> NoVal]
     ELSE [out |-> "ok",
           ret |-> [peer_id |-> peer_id,
                    parents |-> <<identity(h, parent)>>]]

\* Lines 393-404 of get_volume_parents: the reply for target.  Gives
\* [out, ret].  `target.parent.identity()` on None raises AttributeError.
parents_of(h, t, peer_id, target) ==
  LET parent == h[target].parent
  IN IF parent = t.root
       THEN [out |-> "ok", ret |-> [peer_id |-> peer_id, parents |-> <<>>]]
     ELSE IF parent = None
       THEN [out |-> "AttributeError", ret |-> NoVal]
     ELSE [out |-> "ok",
           ret |-> [peer_id |-> peer_id,
                    parents |-> <<identity(h, parent)>>]]

\* get_volume_parents; volume_id may be NoVal, peer_id None, host NoVal.
get_volume_parents(s, volume_id, peer_id, host) ==
  IF peer_id = None /\ host = NoVal
    THEN Reg(s.heap, s.volumes, s.host_to_volumes, "InvalidParameterValue",
             NoVal)
  ELSE IF volume_id = NoVal
    THEN Reg(s.heap, s.volumes, s.host_to_volumes, "InvalidParameterValue",
             NoVal)
  ELSE
    LET fresh == volume_id \notin DOMAIN s.volumes
        root == s.allocated + 1
        created(b) ==
          LET h0 == IF fresh THEN b.h ELSE s.heap
              vs0 == IF fresh THEN Put(s.volumes, volume_id, b.t)
                     ELSE s.volumes
              t0 == vs0[volume_id]
              new_node == IF fresh THEN root + 1 ELSE s.allocated + 1
              pid == IF peer_id # None THEN peer_id
                     ELSE generate_uuid(new_node)
              answer(ins, bk, reply) ==
                Reg(ins.h, [vs0 EXCEPT ![volume_id] = ins.t], bk.idx,
                    reply.out, reply.ret)
              indexed(ins, bk) ==
                IF bk.out # "ok"
                  THEN Reg(ins.h, [vs0 EXCEPT ![volume_id] = ins.t], bk.idx,
                           bk.out, NoVal)
                  ELSE answer(ins, bk,
                              parents_of(ins.h, ins.t, pid, ins.t.nodes[pid]))
              inserted(ins) ==
                IF ins.out # "ok"
                  THEN Reg(ins.h, [vs0 EXCEPT ![volume_id] = ins.t],
                           s.host_to_volumes, ins.out, NoVal)
                ELSE IF peer_id # None
                  THEN indexed(ins, [idx |-> s.host_to_volumes, out |-> "ok"])
                  ELSE indexed(ins, add_host_bookkeeping(s.host_to_volumes,
                                                         host, pid, new_node))
          IN IF peer_id # None /\ peer_id \notin DOMAIN t0.nodes
               THEN Reg(h0, vs0, s.host_to_volumes, "NotFound", NoVal)
             ELSE IF peer_id # None
               THEN inserted([h |-> h0, t |-> t0, out |-> "ok"])
               ELSE inserted(insert_by_node(
                      new_node :> BTreeNode(pid, host, NoVal, NoVal, NoVal,
                                            None, "pending", FALSE) @@ h0,
                      t0, new_node))
    IN created(BTree(root :> BTreeNode(generate_uuid(root), Uuid, Uuid, Uuid,
                                       Uuid, None, "OK", TRUE) @@ s.heap,
                     root))

\* A faulty variant of update_status: the test for the sentinel root is
\* missing.
update_status_without_root_test(s, host) ==
  IF host \notin DOMAIN s.host_to_volumes THEN [out |-> "ok", ret |-> {}]
  ELSE
    LET volume_list == s.host_to_volumes[host]
        par(p) == s.heap[volume_list[p]].parent
    IN IF \E p \in DOMAIN volume_list : par(p) = None
         THEN [out |-> "AttributeError", ret |-> NoVal]
         ELSE [out |-> "ok",
               ret |-> {[peer_id |-> p,
                         parents |-> <<identity(s.heap, par(p))>>]
                        : p \in DOMAIN volume_list}]

\* update_status.  Gives [out, ret]; ret is the set of entries of the list.
update_status(s, host) ==
  IF host \notin DOMAIN s.host_to_volumes THEN [out |-> "ok", ret |-> {}]
  ELSE
    LET volume_list == s.host_to_volumes[host]
        par(p) == s.heap[volume_list[p]].parent
    IN IF \E p \in DOMAIN volume_list : par(p) = None
         THEN [out |-> "AttributeError", ret |-> NoVal]
         ELSE [out |-> "ok",
               ret |-> {[peer_id |-> p,
                         parents |-> IF s.heap[par(p)].fake_root THEN <<>>
                                     ELSE <<identity(s.heap, par(p))>>]
                        : p \in DOMAIN volume_list}]

(***************************************************************************)
(* The state machine                                                       *)
(***************************************************************************)
\* What the last call was and how it ended.  pre is the record of the node
\* the call was aimed at, as it was before the call (NoVal when there was
\* none); precount is count() of the tree before the call.
Res(op, vol, peer, host, meta, status, out, ret, pre, precount) ==
  [op |-> op, vol |-> vol, peer |-> peer, host |-> host, meta |-> meta,
   status |-> status, out |-> out, ret |-> ret, pre |-> pre,
   precount |-> precount]

Registry == [heap |-> heap, volumes |-> volumes,
             host_to_volumes |-> host_to_volumes, allocated |-> allocated]

\* peer_id is registered in the tree of volume_id.
Known(volume_id, peer_id) ==
  volume_id \in DOMAIN volumes /\ peer_id \in DOMAIN volumes[volume_id].nodes

\* Stands for "no node" where a node record is expected.
Absent == BTreeNode(None, NoVal, NoVal, NoVal, NoVal, None, NoVal, FALSE)

\* The node registered under peer_id in volume_id, as a record, or Absent.
NodeOf(volume_id, peer_id) ==
  IF Known(volume_id, peer_id)
    THEN heap[volumes[volume_id].nodes[peer_id]] ELSE Absent

CountOf(volume_id) ==
  IF volume_id \in DOMAIN volumes THEN count(volumes[volume_id]) ELSE 0

\* One call is served at a time (section 5 of the design: no operation
\* yields).  result holds the outcome of the call just served until the
\* caller takes it; a call that never returns ("loop") is never taken.
Idle == Res("idle", NoVal, None, NoVal, NoVal, NoVal, "ok", NoVal, Absent, 0)

Max(S) == CHOOSE x \in S : \A y \in S : x >= y

\* The peer ids a caller passes: those in use, and one that is not.
PeerInputs == UsedPeerIds(heap, host_to_volumes) \cup {allocated + 1}

\* The call creates at most k objects: there is room for them.
CanAlloc(k) == allocated + k <= MaxObj

\* The registry after a call, with the objects nothing refers to dropped.
Commit(r, res) ==
  /\ heap' = Collect(r.heap, r.volumes, r.host_to_volumes)
  /\ volumes' = r.volumes
  /\ host_to_volumes' = r.host_to_volumes
  /\ allocated' = Max({allocated} \cup DOMAIN heap')
  /\ result' = res

Init ==
  /\ heap = EmptyMap
  /\ volumes = EmptyMap
  /\ host_to_volumes = EmptyMap
  /\ allocated = 0
  /\ result = Idle

\* The arguments of get_volume_parents: by host, by peer id, and the two
\* rejected shapes.  The peer id nothing carries is not the uuid the call
\* draws for the sentinel root of a new tree either.
GetVolumeParentsInputs ==
  {<<v, None, h>> : v \in VolumeIds, h \in Hosts}
    \cup {<<v, p, NoVal>> : v \in VolumeIds,
             p \in UsedPeerIds(heap, host_to_volumes) \cup {allocated + 2}}
    \cup {<<v, None, NoVal>> : v \in VolumeIds}
    \cup {<<NoVal, None, h>> : h \in Hosts}

GetVolumeParents ==
  /\ result.op = "idle"
  /\ \E in \in GetVolumeParentsInputs :
       LET volume_id == in[1]
           peer_id == in[2]
           host == in[3]
           need == (IF volume_id \in DOMAIN volumes \/ volume_id = NoVal
                      THEN 0 ELSE 1)
                     + (IF peer_id = None /\ host # NoVal /\ volume_id # NoVal
                          THEN 1 ELSE 0)
       IN /\ CanAlloc(need)
          /\ LET served(r) ==
                   Commit(r, Res("get_volume_parents", volume_id, peer_id,
                                 host, NoVal, NoVal, r.out, r.ret,
                                 NodeOf(volume_id, peer_id),
                                 CountOf(volume_id)))
             IN served(get_volume_parents(Registry, volume_id, peer_id, host))

AddVolumeMetadata ==
  /\ result.op = "idle"
  /\ \E volume_id \in VolumeIds \cup {OtherVolume},
        peer_id \in PeerInputs \cup {None}, m \in Metas :
       /\ CanAlloc(IF Known(volume_id, peer_id)
                      \/ volume_id \notin DOMAIN volumes THEN 0 ELSE 1)
       /\ LET served(r) ==
                Commit(r, Res("add_volume_metadata", volume_id, peer_id,
                              NoVal, m, NoVal, r.out, r.ret,
                              NodeOf(volume_id, peer_id), CountOf(volume_id)))
          IN served(add_volume_metadata(Registry, volume_id, peer_id, m))

DeleteVolumeMetadata ==
  /\ result.op = "idle"
  /\ \E volume_id \in VolumeIds \cup {OtherVolume},
        peer_id \in PeerInputs \cup {None} :
       LET served(r) ==
             Commit(r, Res("delete_volume_metadata", volume_id, peer_id,
                           NoVal, NoVal, NoVal, r.out, r.ret,
                           NodeOf(volume_id, peer_id), CountOf(volume_id)))
       IN served(delete_volume_metadata(Registry, volume_id, peer_id))

UpdateStatus ==
  /\ result.op = "idle"
  /\ \E host \in Hosts :
       LET r == update_status(Registry, host)
       IN /\ result' = Res("update_status", NoVal, None, host, NoVal, NoVal,
                           r.out, r.ret, Absent, 0)
          /\ UNCHANGED <<heap, volumes, host_to_volumes, allocated>>

GetVolumesDetail ==
  /\ result.op = "idle"
  /\ \E volume_id \in VolumeIds \cup {OtherVolume} :
       LET r == get_volumes_detail(Registry, volume_id)
       IN /\ result' = Res("get_volumes_detail", volume_id, None, NoVal,
                           NoVal, NoVal, r.out, r.ret, Absent,
                           CountOf(volume_id))
          /\ UNCHANGED <<heap, volumes, host_to_volumes, allocated>>

GetVolumesList ==
  /\ result.op = "idle"
  /\ result' = Res("get_volumes_list", NoVal, None, NoVal, NoVal, NoVal,
                   "ok", get_volumes_list(Registry), Absent, 0)
  /\ UNCHANGED <<heap, volumes, host_to_volumes, allocated>>

\* The caller takes the outcome of the call; the next call can be served.
Return ==
  /\ result.op # "idle"
  /\ result.out # "loop"
  /\ result' = Idle
  /\ UNCHANGED <<heap, volumes, host_to_volumes, allocated>>

\* Calls that change the registry, with the caller taking each outcome.
Next ==
  \/ GetVolumeParents
  \/ AddVolumeMetadata
  \/ DeleteVolumeMetadata
  \/ Return

Spec == Init /\ [][Next]_vars


(***************************************************************************)
(* The state machine of one BTree used directly                            *)
(***************************************************************************)
TreeVol == "vol-1"

Tree == volumes[TreeVol]

\* update_nodes(peer_id=..., status=...): the address fields default to
\* None.
NoMeta == [host |-> NoVal, port |-> NoVal, iqn |-> NoVal, lun |-> NoVal]

CanAllocTree(k) == allocated + k <= MaxTreeObj

\* BTree(volume_id): the sentinel root.  BTree(volume_id, root): a root the
\* caller made, here BTreeNode(status='OK').
TreeInit ==
  /\ \E fake_root \in BOOLEAN :
       LET root == 1
           h == root :> (IF fake_root
                           THEN BTreeNode(generate_uuid(root), Uuid, Uuid,
                                          Uuid, Uuid, None, "OK", TRUE)
                           ELSE BTreeNode(generate_uuid(root), NoVal, NoVal,
                                          NoVal, NoVal, None, "OK", FALSE))
           b == BTree(h, root)
       IN /\ heap = b.h
          /\ volumes = (TreeVol :> b.t)
  /\ host_to_volumes = EmptyMap
  /\ allocated = 1
  /\ result = Idle

\* The tree after a call on it.
TreeCommit(r, res) ==
  Commit([heap |-> r.h, volumes |-> (TreeVol :> r.t),
          host_to_volumes |-> host_to_volumes], res)

\* One of the peer ids of the tree, for the calls that are rejected because
\* the tree has the peer id.
OnePeer ==
  IF DOMAIN Tree.nodes = {} THEN {} ELSE {Min(DOMAIN Tree.nodes)}

\* The nodes a caller hands insert_by_node besides None: a new
\* BTreeNode(peer_id, status=...), a new node under a peer id the tree has,
\* and a new node that already has a parent.
InsertByNodeInputs ==
  {<<allocated + 1, st, None>> : st \in Statuses}
    \cup {<<p, "OK", None>> : p \in OnePeer}
    \cup {<<allocated + 1, "OK", Tree.root>>}

InsertByNode ==
  /\ result.op = "idle"
  /\ \/ LET served(r) ==
              TreeCommit(r, Res("insert_by_node", TreeVol, None, NoVal,
                                NoVal, NoVal, r.out, None, Absent,
                                count(Tree)))
        IN served(insert_by_node(heap, Tree, None))
     \/ \E in \in InsertByNodeInputs :
          /\ CanAllocTree(1)
          /\ LET peer_id == in[1]
                 status == in[2]
                 new_node == allocated + 1
                 h == new_node :> BTreeNode(peer_id, NoVal, NoVal, NoVal,
                                            NoVal, in[3], status, FALSE)
                        @@ heap
                 served(r) ==
                   TreeCommit(r, Res("insert_by_node", TreeVol, peer_id,
                                     NoVal, NoVal, status, r.out,
                                     IF r.out = "ok" THEN r.h[r.ret].peer_id
                                     ELSE None,
                                     NodeOf(TreeVol, peer_id), count(Tree)))
             IN served(insert_by_node(h, Tree, new_node))

InsertByPeerId ==
  /\ result.op = "idle"
  /\ \E peer_id \in OnePeer \cup {allocated + 1} :
       /\ CanAllocTree(IF Known(TreeVol, peer_id) THEN 0 ELSE 1)
       /\ LET served(r) ==
                TreeCommit(r, Res("insert_by_peer_id", TreeVol, peer_id,
                                  NoVal, NoVal, NoVal, r.out,
                                  IF r.out = "ok" THEN r.h[r.ret].peer_id
                                  ELSE None,
                                  NodeOf(TreeVol, peer_id), count(Tree)))
          IN served(insert_by_peer_id(heap, Tree, peer_id, allocated + 1))

RemoveByPeerId ==
  /\ result.op = "idle"
  /\ \E peer_id \in PeerInputs :
       LET served(r) ==
             TreeCommit(r, Res("remove_by_peer_id", TreeVol, peer_id, NoVal,
                               NoVal, NoVal, r.out,
                               IF r.out = "ok" THEN peer_id ELSE None,
                               NodeOf(TreeVol, peer_id), count(Tree)))
       IN served(remove_by_peer_id(heap, Tree, peer_id))

UpdateNodes ==
  /\ result.op = "idle"
  /\ \E peer_id \in PeerInputs \cup {None}, m \in {NoMeta},
        status \in Statuses :
       /\ CanAllocTree(IF Known(TreeVol, peer_id) THEN 0 ELSE 1)
       /\ peer_id = None => status = "OK"
       /\ LET pid == IF peer_id = None THEN generate_uuid(allocated + 1)
                     ELSE peer_id
              served(r) ==
                TreeCommit(r, Res("update_nodes", TreeVol, peer_id, NoVal, m,
                                  status, r.out,
                                  IF r.out = "ok" THEN identity(r.h, r.ret)
                                  ELSE NoVal,
                                  NodeOf(TreeVol, peer_id), count(Tree)))
          IN served(update_nodes(heap, Tree, pid, m, status, allocated + 1))

\* A faulty variant of get_node_parent: the node is taken with
\* `self.nodes.pop(peer_id)` in the place of `self.nodes[peer_id]`.
GetNodeParentWithPop ==
  /\ result.op = "idle"
  /\ TreeVol \in DOMAIN volumes
  /\ \E peer_id \in PeerInputs :
       LET r == get_node_parent(heap, Tree, peer_id)
       IN /\ result' = Res("get_node_parent", TreeVol, peer_id, NoVal, NoVal,
                           NoVal, r.out,
                           IF r.ret = None THEN None ELSE heap[r.ret].peer_id,
                           NodeOf(TreeVol, peer_id), count(Tree))
          /\ volumes' = [volumes EXCEPT ![TreeVol].nodes = Del(@, peer_id)]
          /\ UNCHANGED <<heap, host_to_volumes, allocated>>

GetNodeParent ==
  /\ result.op = "idle"
  /\ TreeVol \in DOMAIN volumes
  /\ \E peer_id \in PeerInputs :
       LET r == get_node_parent(heap, Tree, peer_id)
       IN /\ result' = Res("get_node_parent", TreeVol, peer_id, NoVal, NoVal,
                           NoVal, r.out,
                           IF r.ret = None THEN None ELSE heap[r.ret].peer_id,
                           NodeOf(TreeVol, peer_id), count(Tree))
          /\ UNCHANGED <<heap, volumes, host_to_volumes, allocated>>

\* The calls of the registry with the read-only calls, get_node_parent on
\* the tree of a volume among them.
NextQuery ==
  \/ Next
  \/ UpdateStatus
  \/ GetVolumesDetail
  \/ GetVolumesList
  \/ GetNodeParent

SpecQuery == Init /\ [][NextQuery]_vars

\* Calls that change the tree, with the caller taking each outcome.
TreeNext ==
  \/ InsertByNode
  \/ InsertByPeerId
  \/ RemoveByPeerId
  \/ UpdateNodes
  \/ Return

TreeSpec == TreeInit /\ [][TreeNext]_vars

\* The same with the read-only call.
TreeNextQuery ==
  \/ TreeNext
  \/ GetNodeParent

TreeSpecQuery == TreeInit /\ [][TreeNextQuery]_vars

(***************************************************************************)
(* Properties                                                              *)
(***************************************************************************)
(***************************************************************************)
(* The state machine of a tree that is only filled                         *)
(***************************************************************************)
\* The number of nodes of the tree, the root included, is at most this.
MaxFill == 7

\* BTree(volume_id, root=BTreeNode(status='OK')): the root is a real node.
FillInit ==
  /\ LET root == 1
         b == BTree(root :> BTreeNode(generate_uuid(root), NoVal, NoVal,
                                      NoVal, NoVal, None, "OK", FALSE),
                    root)
     IN /\ heap = b.h
        /\ volumes = (TreeVol :> b.t)
  /\ host_to_volumes = EmptyMap
  /\ allocated = 1
  /\ result = Idle

\* insert_by_node(BTreeNode(peer_id, status='OK')) with a new peer id.
FillByNode ==
  /\ result.op = "idle"
  /\ allocated + 1 <= MaxFill
  /\ LET new_node == allocated + 1
         peer_id == generate_uuid(new_node)
         served(r) ==
           TreeCommit(r, Res("insert_by_node", TreeVol, peer_id, NoVal, NoVal,
                             "OK", r.out,
                             IF r.out = "ok" THEN r.h[r.ret].peer_id
                             ELSE None,
                             Absent, count(Tree)))
     IN served(insert_by_node(
                 new_node :> BTreeNode(peer_id, NoVal, NoVal, NoVal, NoVal,
                                       None, "OK", FALSE) @@ heap,
                 Tree, new_node))

\* update_nodes(peer_id, ..., status='OK') with a new peer id, or without
\* peer id.
FillByUpdate ==
  /\ result.op = "idle"
  /\ allocated + 1 <= MaxFill
  /\ \E peer_id \in {None, generate_uuid(allocated + 1)},
        m \in Metas \cup {NoMeta} :
       LET served(r) ==
             TreeCommit(r, Res("update_nodes", TreeVol, peer_id, NoVal, m,
                               "OK", r.out,
                               IF r.out = "ok" THEN identity(r.h, r.ret)
                               ELSE NoVal,
                               Absent, count(Tree)))
       IN served(update_nodes(heap, Tree, generate_uuid(allocated + 1), m,
                              "OK", allocated + 1))

FillNext ==
  \/ FillByNode
  \/ FillByUpdate
  \/ Return

FillSpec == FillInit /\ [][FillNext]_vars

\* The objects reachable from the objects of S through left / right.
RECURSIVE Desc(_, _)
Desc(h, S) ==
  LET T == (S \cup UNION {{h[n].left, h[n].right} : n \in S}) \ {None}
  IN IF T = S THEN S ELSE Desc(h, T)

\* The nodes reachable from the root of t.
Reach(h, t) == Desc(h, {t.root} \ {None})

\* The children of n.
Kids(h, n) == {h[n].left, h[n].right} \ {None}

\* C1: every node reachable from the root of a tree, other than the root,
\* has a parent P such that P.left or P.right is that node, and the parent
\* of the root is empty.  (Under TreeSpec a call that fails changes the tree
\* only when the tree has a cycle through left / right already, so the first
\* states without the property are reached by calls that all succeeded.)
C1_ParentLinks ==
  \A v \in DOMAIN volumes :
    LET t == volumes[v] IN
    t.root # None =>
      /\ heap[t.root].parent = None
      /\ \A n \in Reach(heap, t) \ {t.root} :
           LET P == heap[n].parent
           IN P # None /\ (heap[P].left = n \/ heap[P].right = n)

\* C2: the keys of `nodes` are exactly the peer ids of the nodes reachable
\* from the root through left / right.
C2_NodesAreReachable ==
  \A v \in DOMAIN volumes :
    LET t == volumes[v]
    IN DOMAIN t.nodes = {heap[n].peer_id : n \in Reach(heap, t)}

\* The peers of `nodes` of t that have x as their parent.
Dependents(h, t, x) == {p \in DOMAIN t.nodes : h[t.nodes[p]].parent = x}

\* C3: for every node X of a volume, the root included, at most two peers
\* of the volume's `nodes` have X as their parent, and get_volume_parents
\* returns at most one parent.
C3_FanOutCap ==
  /\ \A v \in DOMAIN volumes : \A x \in Range(volumes[v].nodes) :
       Cardinality(Dependents(heap, volumes[v], x)) <= 2
  /\ (result.op = "get_volume_parents" /\ result.out = "ok")
       => Len(result.ret.parents) <= 1

\* get_volume_parents has just sent a peer to an intermediary, in a tree
\* whose root already has its two dependents.
C3_Witness ==
  /\ result.op = "get_volume_parents" /\ result.out = "ok"
  /\ Len(result.ret.parents) = 1
  /\ \E x \in Range(volumes[result.vol].nodes) :
       Cardinality(Dependents(heap, volumes[result.vol], x)) = 2

\* The call being served in this step is get_volume_parents(v, host=host).
HostOnlyCall(v, host) ==
  /\ result.op = "idle"
  /\ result'.op = "get_volume_parents"
  /\ result'.vol = v /\ result'.peer = None /\ result'.host = host

\* n is a pending node without children, directly under the sentinel root
\* of t.
PendingUnderRoot(h, t, n) ==
  /\ n # t.root
  /\ h[n].status = "pending"
  /\ h[n].parent = t.root
  /\ n \in Kids(h, t.root)
  /\ Kids(h, n) = {}

\* The tree of v is a sentinel root with k pending peers directly under it,
\* and nothing else.
RootWithPending(v, k) ==
  /\ v \in DOMAIN volumes
  /\ LET t == volumes[v] IN
     /\ t.root # None
     /\ heap[t.root].fake_root
     /\ count(t) = k + 1
     /\ \A n \in Range(t.nodes) \ {t.root} : PendingUnderRoot(heap, t, n)

\* C4: get_volume_parents(volume_id, peer_id=p), for a peer p of the
\* volume's tree (a node of `nodes` other than the root), returns
\* {peer_id: p, parents: []} exactly when the parent of p is the root of the
\* tree, and otherwise parents is the one-element list of the identity() of
\* the parent of p.  The call leaves the tree as it is, so the parent is
\* read after the call.
C4_ParentsOfPeer ==
  (/\ result.op = "get_volume_parents"
   /\ result.peer # None
   /\ Known(result.vol, result.peer)
   /\ volumes[result.vol].nodes[result.peer] # volumes[result.vol].root)
  => LET t == volumes[result.vol]
         P == heap[t.nodes[result.peer]].parent
     IN /\ result.out = "ok"
        /\ result.ret.peer_id = result.peer
        /\ (result.ret.parents = <<>>) <=> (P = t.root)
        /\ P # t.root => result.ret.parents = <<identity(heap, P)>>

\* get_volume_parents was asked for a peer that hangs under another peer.
C4_Witness ==
  /\ result.op = "get_volume_parents" /\ result.peer # None
  /\ result.out = "ok"
  /\ Known(result.vol, result.peer)
  /\ LET t == volumes[result.vol]
         P == heap[t.nodes[result.peer]].parent
     IN P # None /\ P # t.root /\ result.ret.parents = <<identity(heap, P)>>

\* C5: a host-only get_volume_parents on a volume never seen before, and the
\* next one on the volume it left, each succeed, leave the volume with a
\* tree, put a new pending peer with a fresh peer id directly under the
\* sentinel root, index it under the host given, and return parents = [].
C5_FirstTwoCalls ==
  [][\A v \in VolumeIds, host \in Hosts :
       (HostOnlyCall(v, host)
          /\ (v \notin DOMAIN volumes \/ RootWithPending(v, 1)))
       => /\ result'.out = "ok"
          /\ v \in DOMAIN volumes'
          /\ result'.ret.parents = <<>>
          /\ LET t == volumes'[v]
                 p == result'.ret.peer_id
             IN /\ p \notin UsedPeerIds(heap, host_to_volumes)
                /\ p \in DOMAIN t.nodes
                /\ heap'[t.root].fake_root
                /\ heap'[t.nodes[p]].peer_id = p
                /\ heap'[t.nodes[p]].host = host
                /\ PendingUnderRoot(heap', t, t.nodes[p])
                /\ count(t) = (IF v \in DOMAIN volumes THEN 3 ELSE 2)
                /\ host \in DOMAIN host_to_volumes'
                /\ p \in DOMAIN host_to_volumes'[host]
                /\ host_to_volumes'[host][p] = t.nodes[p]]_vars

\* The second host-only call on a volume has been served: the root has two
\* pending peers under it.
C5_Witness ==
  /\ result.op = "get_volume_parents" /\ result.peer = None
  /\ result.out = "ok"
  /\ result.precount = 2
  /\ result.ret.parents = <<>>
  /\ RootWithPending(result.vol, 2)

\* C6: right after two host-only get_volume_parents calls on a fresh volume
\* (p1 is the left child of the root and p2 the right one, both pending), a
\* third host-only call succeeds, creates p3, puts it under p1 and returns
\* parents = [p1.identity()].
C6_ThirdCall ==
  [][\A v \in VolumeIds, host \in Hosts :
       (HostOnlyCall(v, host) /\ RootWithPending(v, 2))
       => LET p1 == heap[volumes[v].root].left
              t == volumes'[v]
              p3 == result'.ret.peer_id
          IN /\ result'.out = "ok"
             /\ p3 \notin UsedPeerIds(heap, host_to_volumes)
             /\ p3 \in DOMAIN t.nodes
             /\ heap'[t.nodes[p3]].parent = p1
             /\ result'.ret.parents = <<identity(heap', p1)>>]_vars

\* The call being served in this step removes peer p from the tree of v, and
\* succeeds.
Removal(v, p) ==
  /\ result.op = "idle"
  /\ result'.op \in {"remove_by_peer_id", "delete_volume_metadata"}
  /\ result'.out = "ok"
  /\ result'.vol = v /\ result'.peer = p

\* C7: remove_by_peer_id of a node whose status is pending removes the node
\* with its whole subtree: afterwards none of them is reachable from the
\* root or in `nodes`, and count() is smaller by the size of the subtree.
C7_CascadeRemoval ==
  [][\A v \in DOMAIN volumes : \A p \in DOMAIN volumes[v].nodes :
       LET t == volumes[v]
           n == t.nodes[p]
           subtree == Desc(heap, {n})
       IN (Removal(v, p) /\ heap[n].status = "pending")
          => LET t2 == volumes'[v]
             IN /\ count(t2) = count(t) - Cardinality(subtree)
                /\ \A d \in subtree :
                     /\ heap[d].peer_id \notin DOMAIN t2.nodes
                     /\ d \notin Reach(heap', t2)]_vars

\* C8: removing a node whose status is not pending removes that one node:
\* count() is smaller by 1, every former descendant stays in `nodes` and
\* reachable from the root, and an only child takes the place of the removed
\* node under the parent of the removed node.
C8_SingleRemoval ==
  [][\A v \in DOMAIN volumes : \A p \in DOMAIN volumes[v].nodes :
       LET t == volumes[v]
           n == t.nodes[p]
           P == heap[n].parent
       IN (Removal(v, p) /\ heap[n].status # "pending")
          => LET t2 == volumes'[v]
             IN /\ count(t2) = count(t) - 1
                /\ p \notin DOMAIN t2.nodes
                /\ \A d \in Desc(heap, Kids(heap, n)) :
                     /\ heap[d].peer_id \in DOMAIN t2.nodes
                     /\ t2.nodes[heap[d].peer_id] = d
                     /\ d \in Reach(heap', t2)
                /\ (Cardinality(Kids(heap, n)) = 1 /\ P # None)
                     => \A c \in Kids(heap, n) :
                          /\ heap'[c].parent = P
                          /\ IF heap[P].left = n THEN heap'[P].left = c
                             ELSE heap'[P].right = c]_vars

\* The step serves insert_by_peer_id with a peer id the tree has, or
\* remove_by_peer_id with a peer id the tree does not have: the call fails,
\* the second with the exception `unknown`, and the tree is as it was.
TreeErrorKinds(unknown) ==
  /\ (/\ result.op = "idle" /\ result'.op = "insert_by_peer_id"
      /\ Known(TreeVol, result'.peer))
     => /\ result'.out = "DuplicateItem"
        /\ UNCHANGED <<heap, volumes>>
  /\ (/\ result.op = "idle" /\ result'.op = "remove_by_peer_id"
      /\ ~Known(TreeVol, result'.peer))
     => /\ result'.out = unknown
        /\ UNCHANGED <<heap, volumes>>

C10_NoPartialMutation ==
  [][(/\ result.op = "idle"
      /\ result'.op \in {"get_volume_parents", "add_volume_metadata",
                         "delete_volume_metadata"}
      /\ result'.out \in {"InvalidParameterValue", "DuplicateItem",
                          "Duplicate", "NotFound"})
     => UNCHANGED <<heap, volumes, host_to_volumes>>]_vars

\* C11: delete_volume_metadata on a known volume and a peer of its `nodes`
\* (the sentinel root aside) succeeds, whichever calls made and updated the
\* peer: afterwards the peer is neither in `nodes` nor in a bucket of the
\* host index.  NotFound is for an unknown volume or peer only.
C11_DeleteSucceeds ==
  [][(/\ result.op = "idle"
      /\ result'.op = "delete_volume_metadata"
      /\ Known(result'.vol, result'.peer)
      /\ volumes[result'.vol].nodes[result'.peer] # volumes[result'.vol].root)
     => /\ result'.out = "ok"
        /\ result'.peer \notin DOMAIN volumes'[result'.vol].nodes
        /\ \A h \in DOMAIN host_to_volumes' :
             result'.peer \notin DOMAIN host_to_volumes'[h]]_vars

\* The node record n after add_volume_metadata wrote m into it.
WithMetadata(n, m) ==
  [n EXCEPT !.host = m.host, !.port = m.port, !.iqn = m.iqn, !.lun = m.lun,
            !.status = "OK"]

\* C12: add_volume_metadata on a known volume and a peer of its `nodes`
\* (pending or not) sets the status of that peer to OK and its host, port,
\* iqn and lun to the values given, in place: the parent and the children
\* of the peer, every other node, `nodes`, the root and the host index stay
\* as they were, and the call returns the identity of the peer with the new
\* fields.  On an unknown volume the call ends with NotFound and changes
\* nothing.
C12_MetadataInPlace ==
  [][(result.op = "idle" /\ result'.op = "add_volume_metadata")
     => /\ Known(result'.vol, result'.peer) =>
             LET target == volumes[result'.vol].nodes[result'.peer]
             IN /\ result'.out = "ok"
                /\ heap' = [heap EXCEPT
                              ![target] = WithMetadata(heap[target],
                                                       result'.meta)]
                /\ volumes' = volumes
                /\ host_to_volumes' = host_to_volumes
                /\ result'.ret = identity(heap', target)
                /\ result'.ret.peer_id = result'.peer
        /\ result'.vol \notin DOMAIN volumes =>
             /\ result'.out = "NotFound"
             /\ UNCHANGED <<heap, volumes, host_to_volumes>>]_vars

\* add_volume_metadata has completed a pending peer that has a sibling.
C12_Witness ==
  /\ result.op = "add_volume_metadata"
  /\ result.out = "ok"
  /\ result.pre.status = "pending"
  /\ result.pre.parent # None
  /\ NodeOf(result.vol, result.peer)
       = WithMetadata(result.pre, result.meta)
  /\ Cardinality(Kids(heap, result.pre.parent)) = 2

\* C13: in a tree whose root is a real node with status OK and that is only
\* filled with nodes of status OK, the k-th node in insertion order (the
\* root is the first) is the child of the (k \div 2)-th node, its left child
\* when k is even and its right child when k is odd: the tree is complete,
\* filled level by level from left to right.  Objects are numbered in the
\* order they are made, so the k-th node is object k.
C13_CompleteTree ==
  /\ DOMAIN heap = 1 .. allocated
  /\ Tree.root = 1
  /\ heap[1].parent = None
  /\ Range(Tree.nodes) = 1 .. allocated
  /\ \A k \in 2 .. allocated :
       /\ heap[k].parent = k \div 2
       /\ IF k % 2 = 0 THEN heap[k \div 2].left = k
          ELSE heap[k \div 2].right = k
  /\ \A k \in 1 .. allocated :
       /\ heap[k].left \in {None, 2 * k}
       /\ heap[k].right \in {None, 2 * k + 1}
  /\ result.out = "ok"

\* Two levels are full and the third is begun under the right child of the
\* root.
C13_Witness ==
  /\ result.op \in {"insert_by_node", "update_nodes"}
  /\ Cardinality(DOMAIN Tree.nodes) >= 6
  /\ heap[3].left = 6
  /\ heap[6].parent = 3

\* C14: update_status(host) returns one entry {peer_id, parents} for each
\* peer of the bucket of host in the host index and no other entry, and the
\* parents of each entry are the parents get_volume_parents(volume_id,
\* peer_id) returns for that peer in the same state; for a host without
\* bucket it returns the empty list.
C14_StatusForHost ==
  result.op = "update_status" =>
    /\ result.out = "ok"
    /\ IF result.host \notin DOMAIN host_to_volumes THEN result.ret = {}
       ELSE
         LET bucket == host_to_volumes[result.host]
         IN /\ {e.peer_id : e \in result.ret} = DOMAIN bucket
            /\ Cardinality(result.ret) = Cardinality(DOMAIN bucket)
            /\ \A e \in result.ret :
                 /\ \E v \in DOMAIN volumes : Known(v, e.peer_id)
                 /\ \A v \in DOMAIN volumes :
                      Known(v, e.peer_id) =>
                        LET r == get_volume_parents(Registry, v, e.peer_id,
                                                    NoVal)
                        IN r.out = "ok" /\ r.ret.parents = e.parents

\* update_status has answered for a host with a peer under the sentinel
\* root and a peer under another peer.
C14_Witness ==
  /\ result.op = "update_status"
  /\ result.out = "ok"
  /\ \E e1, e2 \in result.ret : e1.parents = <<>> /\ Len(e2.parents) = 1

\* C16: get_node_parent and get_volumes_detail change nothing, whether they
\* succeed or fail: the volumes of the registry, `nodes`, root, links and
\* fields of the nodes of every tree and the host index are after the call
\* what they were before it.
C16_LookupsChangeNothing ==
  [][(/\ result.op = "idle"
      /\ result'.op \in {"get_node_parent", "get_volumes_detail"})
     => UNCHANGED <<heap, volumes, host_to_volumes>>]_vars

\* get_node_parent has answered for a peer under another peer, in a
\* registry with an indexed peer.
C16_Witness ==
  /\ result.op = "get_node_parent"
  /\ result.out = "ok"
  /\ Known(result.vol, result.peer)
  /\ result.ret \notin {None, heap[volumes[result.vol].root].peer_id}
  /\ host_to_volumes # EmptyMap

\* C15, its first half: every entry host_to_volumes[h][p] is a node that is
\* registered under peer id p in `nodes` of the tree of some volume and
\* whose host is h.  (The second half, that a peer made by a host-only
\* get_volume_parents stays indexed under the current host of its node,
\* fails in the same states: such a peer is indexed under the host it was
\* made with.)
C15_HostIndexConsistent ==
  \A h \in DOMAIN host_to_volumes : \A p \in DOMAIN host_to_volumes[h] :
    /\ \E v \in DOMAIN volumes :
         Known(v, p) /\ volumes[v].nodes[p] = host_to_volumes[h][p]
    /\ heap[host_to_volumes[h][p]].host = h

\* C17: get_volumes_detail(volume_id) succeeds in every state; for a volume
\* of the registry it returns one record {host, port, iqn, lun, status} for
\* each node of `nodes` of its tree, and for another volume the empty list.
C17_VolumeDetail ==
  result.op = "get_volumes_detail" =>
    /\ result.out = "ok"
    /\ Len(result.ret) = CountOf(result.vol)

\* C18: in every state reachable through the calls of the registry,
\* tree_remove_by_node returns for every node of every tree (the sentinel
\* root, which no call of the registry removes, is left aside): the walk
\* `while not current.available()` down the left spine reaches an available
\* node.
C18_RemovalTerminates ==
  \A v \in DOMAIN volumes :
    \A n \in Range(volumes[v].nodes) \ {volumes[v].root} :
      tree_remove_by_node(heap, volumes[v].root, n, RemoveFuel).out # "loop"

\* The first available node in level order among the nodes of the sequence
\* level and the nodes under them: None when there is none.  For trees
\* without cycle.
RECURSIVE FirstAvailable(_, _)
FirstAvailable(h, level) ==
  IF level = <<>> THEN None
  ELSE IF \E i \in DOMAIN level : available(h, level[i])
    THEN level[Min({i \in DOMAIN level : available(h, level[i])})]
  ELSE
    LET kids(n) == SelectSeq(<<h[n].left, h[n].right>>, LAMBDA c : c # None)
        RECURSIVE below(_)
        below(i) == IF i > Len(level) THEN <<>>
                    ELSE kids(level[i]) \o below(i + 1)
    IN FirstAvailable(h, below(1))

\* C19: in every tree in which a node reachable from the root is available,
\* tree_find_available_slot ends without error and returns the first
\* available node in level order (least depth, leftmost at that depth),
\* whichever nodes that are not available come before it.
C19_FindAvailableSlot ==
  \A v \in DOMAIN volumes :
    LET t == volumes[v] IN
    (\E n \in Reach(heap, t) : available(heap, n)) =>
      /\ tree_find_available_slot(heap, t.root) \notin {AttributeError, Loop}
      /\ tree_find_available_slot(heap, t.root)
           = FirstAvailable(heap, <<t.root>>)

\* C20: the node update_nodes returns with status pending has no
\* descendants after the call: its left and its right are empty, whatever
\* subtree it had before.
C20_PendingHasNoChildren ==
  (/\ result.op = "update_nodes"
   /\ result.out = "ok"
   /\ result.ret.status = "pending")
    => LET target == heap[Tree.nodes[result.ret.peer_id]]
       IN target.left = None /\ target.right = None

\* C21: in every state reachable through get_volume_parents,
\* add_volume_metadata and delete_volume_metadata, every node with status
\* pending has neither left nor right child, and every node that has a
\* child has status OK.
C21_PendingAreLeaves ==
  \A v \in DOMAIN volumes : \A n \in Range(volumes[v].nodes) :
    /\ heap[n].status = "pending" =>
         heap[n].left = None /\ heap[n].right = None
    /\ Kids(heap, n) # {} => heap[n].status = "OK"

\* delete_volume_metadata has removed a node with two children, so that its
\* right subtree was grafted, from a tree that still has a pending node and
\* a node other than the root with a child.
C21_Witness ==
  /\ result.op = "delete_volume_metadata"
  /\ result.out = "ok"
  /\ result.pre.left # None
  /\ result.pre.right # None
  /\ \E n \in Range(volumes[result.vol].nodes) : heap[n].status = "pending"
  /\ \E n \in Range(volumes[result.vol].nodes) \ {volumes[result.vol].root} :
       Kids(heap, n) # {}

=============================================================================
